---- MODULE Spec2Model ----
(***************************************************************************)
(* Model of ec2.py: a command-line tool that provisions one EC2 instance   *)
(* from a launch template, attaches and mounts a data volume, and tears    *)
(* the instance down.  The instance record lives in instance_info.json.    *)
(*                                                                         *)
(* One command runs at a time.  Every external call (boto3 client call,    *)
(* waiter, subprocess) is one step of the command and may raise; a command *)
(* in progress may also be killed from outside at any step.                 *)
(*                                                                         *)
(* Python strings that the code takes apart or builds (paths, argv words)  *)
(* are sequences of tokens; an instance id is a positive number and 0 is   *)
(* None; an address is a token and "None" is None.                         *)
(***************************************************************************)
EXTENDS Integers, Sequences, FiniteSets, TLC

\* ------------------------------------------------------------- bounds
\* The provider accepts at most this many launches in one behaviour.
MaxLaunches == 2

\* ------------------------------------------------ configuration (ec2.py)
Templates == {"nano", "gpu"}

instance_templates ==
    [t \in Templates |->
        IF t = "nano"
        THEN [template_id |-> "lt-0e0b43a5b92c4d420", template_version |-> "1"]
        ELSE [template_id |-> "lt-01849062ec450a84b", template_version |-> "3"]]

volume_id == "vol-03e082be1ec238e52"

key_path == "~/Dropbox/virginia.cer"

\* --------------------------------------------------- inputs and the world
\* Addresses the provider may give an instance.
Addrs == {"10.0.0.1", "10.0.0.2"}

\* Values of --volume_device (the first is the default).
VolumeDevices == {"/dev/nvme2n1", "/dev/xvdf"}

\* Working directories the tool may be run from (absolute, as path words).
Dirs == {<<"/", "h">>, <<"/", "w", "/", "d">>}

\* Path arguments of scp, as sequences of characters and path words.
Paths ==
    { <<"x">>,
      <<"e", "c", "2", ":", "/", "y">>,
      <<".", ".", "/", "x">>,
      <<"e", "c", "2", ":">>,
      <<"/", "y", "/", "/", ".", "/", "z">> }

Ids == 1 .. MaxLaunches

None == 0

NoIp == "None"

\* ---------------------------------------------------------------- state
VARIABLES
    file,           \* content of instance_info.json
    cwd,            \* the working directory the tool is run from
    cmd,            \* the command in progress, or the last one run
    pc,             \* position of the command in progress; "idle" if none
    args,           \* the arguments of the command
    instance_id,    \* local variable instance_id of the command
    instance_ip,    \* local variable instance_ip of the command
    outcome,        \* how the last command ended
    out,            \* what the command echoed
    calls,          \* Gateway calls and subprocesses the command issued
    prev,           \* when up follows up: summary of the first of the two
    afterTerminate, \* a terminate succeeded and no up was invoked since
    nextId,         \* the id the provider gives the next instance
    instState,      \* provider-side state of each instance
    addr,           \* provider-side public address of each instance
    vol,            \* provider-side state of the volume
    peer            \* a second invocation running at the same time, if any

vars == << file, cwd, cmd, pc, args, instance_id, instance_ip, outcome, out,
           calls, prev, afterTerminate, nextId, instState, addr, vol, peer >>

local == << cmd, args, prev, afterTerminate >>

world == << nextId, instState, addr, vol >>

\* ------------------------------------------------------- record store
Absent == [kind |-> "absent", instance_id |-> None, instance_ip |-> NoIp]

Corrupt == [kind |-> "corrupt", instance_id |-> None, instance_ip |-> NoIp]

\* json.dump({"instance_id": ..., "instance_ip": ...}) to the file
save_instance_info(id, ip) ==
    [kind |-> "record", instance_id |-> id, instance_ip |-> ip]

\* Mutant: the keys are looked up with defaults under other names, so a
\* record reads as (None, None).
load_instance_info_Mut(f) == << None, NoIp >>

\* Mutant: every exception of the load is caught like FileNotFoundError.
load_raises_Mut(f) == FALSE

\* The pair load_instance_info returns; (None, None) when the file is
\* missing.  It raises when the content does not parse.
load_raises(f) == f.kind = "corrupt"

load_instance_info(f) ==
    IF f.kind = "absent" THEN << None, NoIp >>
    ELSE << f.instance_id, f.instance_ip >>

\* ------------------------------------------------------- echo and calls
Msg(m, id, ip, argv) == [msg |-> m, id |-> id, ip |-> ip, argv |-> argv]

Gateway(name, id, argv) ==
    [kind |-> "gateway", name |-> name, id |-> id, ip |-> NoIp, argv |-> argv,
     status |-> 0]

Subprocess(name, ip, argv) ==
    [kind |-> "subprocess", name |-> name, id |-> None, ip |-> ip, argv |-> argv,
     status |-> 0]

\* A subprocess call with the exit status it returned.
Exited(call, status) == [call EXCEPT !.status = status]

\* The argv execute_ssh builds around a command.
ssh_argv(ip, command) ==
    << <<"ssh">>, <<"-i">>, <<key_path>>, <<"-o">>,
       <<"StrictHostKeyChecking=no">>, <<"ubuntu@", ip>> >> \o command

NoArgs == [instance_type |-> "", volume_device |-> "",
           from_path |-> << >>, to_path |-> << >>]

\* The number of launch calls among the calls of a command.
Launches(cs) ==
    Cardinality({i \in 1 .. Len(cs) : cs[i].name = "run_instances"})

\* The name of the last call of a command; "" when it made none.
LastCall(cs) == IF cs = << >> THEN "" ELSE cs[Len(cs)].name

\* No second invocation.
NoPeer == [cmd |-> "none", pc |-> "idle", args |-> NoArgs,
           instance_id |-> None, instance_ip |-> NoIp, outcome |-> "none",
           out |-> << >>, calls |-> << >>]

NoPrev == [cmd |-> "none", outcome |-> "none", launches |-> 0, last |-> "",
           file |-> Absent]

\* ----------------------------------------------------------------- Init
Init ==
    /\ file \in {Absent, Corrupt}
    /\ cwd \in Dirs
    /\ cmd = "none"
    /\ pc = "idle"
    /\ args = NoArgs
    /\ instance_id = None
    /\ instance_ip = NoIp
    /\ outcome = "none"
    /\ out = << >>
    /\ calls = << >>
    /\ prev = NoPrev
    /\ afterTerminate = FALSE
    /\ nextId = 1
    /\ instState = [i \in Ids |-> "none"]
    /\ addr = [i \in Ids |-> NoIp]
    /\ vol = [state |-> "available", inst |-> None]
    /\ peer = NoPeer

\* ------------------------------------------------- command entry and exit
\* The shell starts a command: cli() dispatches to the command function.
Invoke(c, a) ==
    /\ pc = "idle"
    /\ cmd' = c
    /\ args' = a
    /\ instance_id' = None
    /\ instance_ip' = NoIp
    /\ outcome' = "none"
    /\ out' = << >>
    /\ calls' = << >>
    /\ prev' = IF c = "up" /\ cmd = "up"
                THEN [cmd |-> cmd, outcome |-> outcome,
                      launches |-> Launches(calls), last |-> LastCall(calls),
                      file |-> file]
                ELSE NoPrev
    /\ afterTerminate' =
          /\ c # "up"
          /\ \/ afterTerminate
             \/ cmd = "terminate" /\ outcome = "ok"
    /\ UNCHANGED << file, cwd, peer, world >>

\* The command function returns.
Return == pc' = "idle" /\ outcome' = "ok"

\* An exception leaves the command function and ends the process.
Raise == pc' = "idle" /\ outcome' = "fatal"

Echo(m) == out' = Append(out, m)

Call(c) == calls' = Append(calls, c)

\* ------------------------------------------------------------------- up
InvokeUp ==
    \E t \in Templates, d \in VolumeDevices :
        /\ Invoke("up", [NoArgs EXCEPT !.instance_type = t, !.volume_device = d])
        /\ pc' = "up_load"

\* Mutant: the return of line 65 is missing, so up goes on to provision.
Up_Load_Mut ==
    /\ pc = "up_load"
    /\ IF load_raises(file)
       THEN /\ Raise
            /\ UNCHANGED << instance_id, instance_ip, out >>
       ELSE /\ instance_id' = load_instance_info(file)[1]
            /\ instance_ip' = load_instance_info(file)[2]
            /\ IF instance_id' # None
               THEN out' = out \o << Msg("already provisioned", instance_id', instance_ip', << >>),
                                    Msg("Provisioning instance...", None, NoIp, << >>) >>
               ELSE Echo(Msg("Provisioning instance...", None, NoIp, << >>))
            /\ pc' = "up_run"
            /\ UNCHANGED outcome
    /\ UNCHANGED << file, cwd, peer, calls, local, world >>

\* Mutant: up holds a lock on the record file for its whole run, and an up
\* that finds it held gives up.
Up_Load_Locked ==
    /\ pc = "up_load"
    /\ IF load_raises(file) \/ peer.pc \notin {"idle", "up_load"}
       THEN /\ Raise
            /\ UNCHANGED << instance_id, instance_ip, out >>
       ELSE /\ instance_id' = load_instance_info(file)[1]
            /\ instance_ip' = load_instance_info(file)[2]
            /\ IF instance_id' # None
               THEN /\ Echo(Msg("already provisioned", instance_id', instance_ip', << >>))
                    /\ Return
               ELSE /\ Echo(Msg("Provisioning instance...", None, NoIp, << >>))
                    /\ pc' = "up_run"
                    /\ UNCHANGED outcome
    /\ UNCHANGED << file, cwd, peer, calls, local, world >>

\* up, lines 62-67: load the record; report and return when there is one.
Up_Load ==
    /\ pc = "up_load"
    /\ IF load_raises(file)
       THEN /\ Raise
            /\ UNCHANGED << instance_id, instance_ip, out >>
       ELSE /\ instance_id' = load_instance_info(file)[1]
            /\ instance_ip' = load_instance_info(file)[2]
            /\ IF instance_id' # None
               THEN /\ Echo(Msg("already provisioned", instance_id', instance_ip', << >>))
                    /\ Return
               ELSE /\ Echo(Msg("Provisioning instance...", None, NoIp, << >>))
                    /\ pc' = "up_run"
                    /\ UNCHANGED outcome
    /\ UNCHANGED << file, cwd, peer, calls, local, world >>

\* Mutant: a failed launch is caught and up goes on without an instance id.
run_instance_Mut ==
    /\ pc = "up_run"
    /\ Call(Gateway("run_instances", None,
                    << <<instance_templates[args.instance_type].template_id>>,
                       <<instance_templates[args.instance_type].template_version>> >>))
    /\ \/ /\ nextId <= MaxLaunches
          /\ \E a \in Addrs :
                /\ instState' = [instState EXCEPT ![nextId] = "pending"]
                /\ addr' = [addr EXCEPT ![nextId] = a]
          /\ instance_id' = nextId
          /\ nextId' = nextId + 1
       \/ UNCHANGED << instance_id, nextId, instState, addr >>
    /\ Echo(Msg("Waiting for instance to start running...", None, NoIp, << >>))
    /\ pc' = "up_wait_running"
    /\ UNCHANGED << file, cwd, peer, instance_ip, outcome, local, vol >>

\* run_instance: the provider launches one instance from the template, or
\* the call raises.  Line 72 echoes before the wait.
run_instance ==
    /\ pc = "up_run"
    /\ Call(Gateway("run_instances", None,
                    << <<instance_templates[args.instance_type].template_id>>,
                       <<instance_templates[args.instance_type].template_version>> >>))
    /\ \/ /\ nextId <= MaxLaunches
          /\ \E a \in Addrs :
                /\ instState' = [instState EXCEPT ![nextId] = "pending"]
                /\ addr' = [addr EXCEPT ![nextId] = a]
          /\ instance_id' = nextId
          /\ nextId' = nextId + 1
          /\ Echo(Msg("Waiting for instance to start running...", None, NoIp, << >>))
          /\ pc' = "up_wait_running"
          /\ UNCHANGED outcome
       \/ /\ Raise
          /\ UNCHANGED << instance_id, out, nextId, instState, addr >>
    /\ UNCHANGED << file, cwd, peer, instance_ip, local, vol >>

\* Mutant: a waiter that times out is ignored and up goes on.
Up_WaitRunning_Mut ==
    /\ pc = "up_wait_running"
    /\ Call(Gateway("wait instance_running", instance_id, << >>))
    /\ \/ instState' = [instState EXCEPT ![instance_id] = "running"]
       \/ UNCHANGED instState
    /\ pc' = "up_get_ip"
    /\ UNCHANGED << file, cwd, peer, instance_id, instance_ip, outcome, out, local,
                    nextId, addr, vol >>

\* up, line 73: the instance_running waiter returns or times out.
Up_WaitRunning ==
    /\ pc = "up_wait_running"
    /\ Call(Gateway("wait instance_running", instance_id, << >>))
    /\ \/ /\ instState' = [instState EXCEPT ![instance_id] = "running"]
          /\ pc' = "up_get_ip"
          /\ UNCHANGED outcome
       \/ /\ Raise
          /\ UNCHANGED instState
    /\ UNCHANGED << file, cwd, peer, instance_id, instance_ip, out, local, nextId, addr, vol >>

\* Mutant: the address is read from another field of the description.
get_instance_ip_Mut ==
    /\ pc = "up_get_ip"
    /\ Call(Gateway("describe_instances", instance_id, << >>))
    /\ \/ /\ instance_ip' \in Addrs \ {addr[instance_id]}
          /\ Echo(Msg("provisioned", instance_id, instance_ip', << >>))
          /\ pc' = "up_save"
          /\ UNCHANGED outcome
       \/ /\ Raise
          /\ UNCHANGED << instance_ip, out >>
    /\ UNCHANGED << file, cwd, peer, instance_id, local, world >>

\* get_instance_ip and the echo of line 76.
get_instance_ip ==
    /\ pc = "up_get_ip"
    /\ Call(Gateway("describe_instances", instance_id, << >>))
    /\ \/ /\ instance_ip' = addr[instance_id]
          /\ Echo(Msg("provisioned", instance_id, instance_ip', << >>))
          /\ pc' = "up_save"
          /\ UNCHANGED outcome
       \/ /\ Raise
          /\ UNCHANGED << instance_ip, out >>
    /\ UNCHANGED << file, cwd, peer, instance_id, local, world >>

\* Mutant: the record is written before the address is known, then again.
Up_Save_Mut ==
    /\ pc = "up_save"
    /\ \/ file' = save_instance_info(instance_id, NoIp)
       \/ file' = save_instance_info(instance_id, instance_ip)
    /\ Echo(Msg("Waiting for SSH to be available...", None, NoIp, << >>))
    /\ pc' = "up_sleep"
    /\ UNCHANGED << cwd, peer, instance_id, instance_ip, outcome, calls, local, world >>

\* up, lines 79-81: write the record, echo.
Up_Save ==
    /\ pc = "up_save"
    /\ file' = save_instance_info(instance_id, instance_ip)
    /\ Echo(Msg("Waiting for SSH to be available...", None, NoIp, << >>))
    /\ pc' = "up_sleep"
    /\ UNCHANGED << cwd, peer, instance_id, instance_ip, outcome, calls, local, world >>

\* up, line 82: time.sleep(10).
Up_Sleep ==
    /\ pc = "up_sleep"
    /\ pc' = "attach_volume"
    /\ UNCHANGED << file, cwd, peer, instance_id, instance_ip, outcome, out, calls, local, world >>

\* execute_ssh: echo the argv, run it; with check a non-zero status raises.
\* `next` is where the caller continues.
execute_ssh(ip, command, check, next) ==
    /\ Echo(Msg("Executing command", None, NoIp, ssh_argv(ip, command)))
    /\ \E status \in {0, 1} :
          /\ Call(Exited(Subprocess("ssh", ip, ssh_argv(ip, command)), status))
          /\ IF check /\ status # 0
             THEN Raise
             ELSE IF next = "return" THEN Return ELSE pc' = next /\ UNCHANGED outcome

\* Mutant: a failed attach removes the record on the way out.
Attach_Call_Mut ==
    /\ pc = "attach_volume"
    /\ Call(Gateway("attach_volume", instance_id, << <<volume_id>> >>))
    /\ \/ /\ vol.state = "available"
          /\ instState[instance_id] = "running"
          /\ vol' = [state |-> "attaching", inst |-> instance_id]
          /\ Echo(Msg("Waiting for volume to be attached...", None, NoIp, << >>))
          /\ pc' = "wait_volume"
          /\ UNCHANGED << outcome, file >>
       \/ /\ Raise
          /\ file' = Absent
          /\ UNCHANGED << vol, out >>
    /\ UNCHANGED << cwd, peer, instance_id, instance_ip, local, nextId, instState, addr >>

\* attach_volume, lines 89-97: the attach call, then an echo.
Attach_Call ==
    /\ pc = "attach_volume"
    /\ Call(Gateway("attach_volume", instance_id, << <<volume_id>> >>))
    /\ \/ /\ vol.state = "available"
          /\ instState[instance_id] = "running"
          /\ vol' = [state |-> "attaching", inst |-> instance_id]
          /\ Echo(Msg("Waiting for volume to be attached...", None, NoIp, << >>))
          /\ pc' = "wait_volume"
          /\ UNCHANGED outcome
       \/ /\ Raise
          /\ UNCHANGED << vol, out >>
    /\ UNCHANGED << file, cwd, peer, instance_id, instance_ip, local, nextId, instState, addr >>

\* attach_volume, lines 98-101: the volume_in_use waiter, then an echo.
Attach_Wait ==
    /\ pc = "wait_volume"
    /\ Call(Gateway("wait volume_in_use", None, << <<volume_id>> >>))
    /\ \/ /\ vol' = [vol EXCEPT !.state = "in-use"]
          /\ Echo(Msg("Mounting volume...", None, NoIp, << >>))
          /\ pc' = "mkdir"
          /\ UNCHANGED outcome
       \/ /\ Raise
          /\ UNCHANGED << vol, out >>
    /\ UNCHANGED << file, cwd, peer, instance_id, instance_ip, local, nextId, instState, addr >>

\* Mutant: mkdir is run with check=False.
Attach_Mkdir_Mut ==
    /\ pc = "mkdir"
    /\ execute_ssh(instance_ip, << <<"sudo">>, <<"mkdir">>, <<"/mnt/external">> >>,
                   FALSE, "chown")
    /\ UNCHANGED << file, cwd, peer, instance_id, instance_ip, local, world >>

\* attach_volume, line 102.
Attach_Mkdir ==
    /\ pc = "mkdir"
    /\ execute_ssh(instance_ip, << <<"sudo">>, <<"mkdir">>, <<"/mnt/external">> >>,
                   TRUE, "chown")
    /\ UNCHANGED << file, cwd, peer, instance_id, instance_ip, local, world >>

\* attach_volume, line 103.
Attach_Chown ==
    /\ pc = "chown"
    /\ execute_ssh(instance_ip,
                   << <<"sudo">>, <<"chown">>, <<"ubuntu">>, <<"/mnt/external">> >>,
                   TRUE, "mount")
    /\ UNCHANGED << file, cwd, peer, instance_id, instance_ip, local, world >>

\* attach_volume, line 104; up returns after it.
Attach_Mount ==
    /\ pc = "mount"
    /\ execute_ssh(instance_ip,
                   << <<"sudo">>, <<"mount">>, <<args.volume_device>>, <<"/mnt/external">> >>,
                   TRUE, "return")
    /\ UNCHANGED << file, cwd, peer, instance_id, instance_ip, local, world >>

\* ------------------------------------------------------------ terminate
InvokeTerminate ==
    /\ Invoke("terminate", NoArgs)
    /\ pc' = "term_load"

\* Mutant: the check of line 144 is missing.
Term_Load_Mut ==
    /\ pc = "term_load"
    /\ IF load_raises(file)
       THEN /\ Raise
            /\ UNCHANGED << instance_id, out >>
       ELSE /\ instance_id' = load_instance_info(file)[1]
            /\ Echo(Msg("Terminating instance", instance_id', NoIp, << >>))
            /\ pc' = "term_call"
            /\ UNCHANGED outcome
    /\ UNCHANGED << file, cwd, peer, instance_ip, calls, local, world >>

\* terminate, lines 143-148.
Term_Load ==
    /\ pc = "term_load"
    /\ IF load_raises(file)
       THEN /\ Raise
            /\ UNCHANGED << instance_id, out >>
       ELSE /\ instance_id' = load_instance_info(file)[1]
            /\ IF instance_id' = None
               THEN /\ Echo(Msg("No instance provisioned.", None, NoIp, << >>))
                    /\ Return
               ELSE /\ Echo(Msg("Terminating instance", instance_id', NoIp, << >>))
                    /\ pc' = "term_call"
                    /\ UNCHANGED outcome
    /\ UNCHANGED << file, cwd, peer, instance_ip, calls, local, world >>

\* terminate, line 151.
Term_Call ==
    /\ pc = "term_call"
    /\ Call(Gateway("terminate_instances", instance_id, << >>))
    /\ \/ /\ instState' =
                [instState EXCEPT ![instance_id] =
                    IF @ = "terminated" THEN @ ELSE "shutting-down"]
          /\ pc' = "term_wait"
          /\ UNCHANGED outcome
       \/ /\ Raise
          /\ UNCHANGED instState
    /\ UNCHANGED << file, cwd, peer, instance_id, instance_ip, out, local, nextId, addr, vol >>

\* Mutant: a waiter that times out is ignored and terminate goes on.
Term_Wait_Mut ==
    /\ pc = "term_wait"
    /\ Call(Gateway("wait instance_terminated", instance_id, << >>))
    /\ \/ /\ instState' = [instState EXCEPT ![instance_id] = "terminated"]
          /\ addr' = [addr EXCEPT ![instance_id] = NoIp]
          /\ vol' = IF vol.inst = instance_id
                    THEN [state |-> "available", inst |-> None]
                    ELSE vol
       \/ UNCHANGED << instState, addr, vol >>
    /\ pc' = "term_rm"
    /\ UNCHANGED << file, cwd, peer, instance_id, instance_ip, outcome, out, local, nextId >>

\* terminate, line 155: the instance_terminated waiter returns or times out.
\* A terminated instance releases its address and the volume.
Term_Wait ==
    /\ pc = "term_wait"
    /\ Call(Gateway("wait instance_terminated", instance_id, << >>))
    /\ \/ /\ instState' = [instState EXCEPT ![instance_id] = "terminated"]
          /\ addr' = [addr EXCEPT ![instance_id] = NoIp]
          /\ vol' = IF vol.inst = instance_id
                    THEN [state |-> "available", inst |-> None]
                    ELSE vol
          /\ pc' = "term_rm"
          /\ UNCHANGED outcome
       \/ /\ Raise
          /\ UNCHANGED << instState, addr, vol >>
    /\ UNCHANGED << file, cwd, peer, instance_id, instance_ip, out, local, nextId >>

\* Mutant: rm is given another file name, so the record stays.
Term_Rm_Mut ==
    /\ pc = "term_rm"
    /\ Call(Subprocess("rm", NoIp, << <<"rm">>, <<"instance.json">> >>))
    /\ Echo(Msg("terminated", instance_id, NoIp, << >>))
    /\ Return
    /\ UNCHANGED << file, cwd, peer, instance_id, instance_ip, local, world >>

\* terminate, lines 158-160: rm instance_info.json, echo.
Term_Rm ==
    /\ pc = "term_rm"
    /\ Call(Subprocess("rm", NoIp, << <<"rm">>, <<"instance_info.json">> >>))
    /\ file' = Absent
    /\ Echo(Msg("terminated", instance_id, NoIp, << >>))
    /\ Return
    /\ UNCHANGED << cwd, peer, instance_id, instance_ip, local, world >>

\* ------------------------------------------------------------------ ssh
InvokeSsh ==
    /\ Invoke("ssh", NoArgs)
    /\ pc' = "ssh_load"

\* ssh, lines 166-171.
Ssh_Load ==
    /\ pc = "ssh_load"
    /\ IF load_raises(file)
       THEN /\ Raise
            /\ UNCHANGED << instance_ip, out >>
       ELSE /\ instance_ip' = load_instance_info(file)[2]
            /\ IF instance_ip' = NoIp
               THEN /\ Echo(Msg("No instance provisioned.", None, NoIp, << >>))
                    /\ Return
               ELSE /\ Echo(Msg("SSHing into instance", None, instance_ip', << >>))
                    /\ pc' = "ssh_exec"
                    /\ UNCHANGED outcome
    /\ UNCHANGED << file, cwd, peer, instance_id, calls, local, world >>

\* Mutant: a session that exits non-zero is taken for a dead instance and
\* the record is removed.
Ssh_Exec_Mut ==
    /\ pc = "ssh_exec"
    /\ execute_ssh(instance_ip, << <<"-L">>, <<"8888:localhost:8888">> >>,
                   FALSE, "return")
    /\ file' = IF calls'[Len(calls')].status # 0 THEN Absent ELSE file
    /\ UNCHANGED << cwd, peer, instance_id, instance_ip, local, world >>

\* ssh, line 174: the exit status of the session is not checked.
Ssh_Exec ==
    /\ pc = "ssh_exec"
    /\ execute_ssh(instance_ip, << <<"-L">>, <<"8888:localhost:8888">> >>,
                   FALSE, "return")
    /\ UNCHANGED << file, cwd, peer, instance_id, instance_ip, local, world >>

\* ------------------------------------------------------------------ scp
\* str.startswith
startswith(s, prefix) ==
    /\ Len(s) >= Len(prefix)
    /\ SubSeq(s, 1, Len(prefix)) = prefix

\* s[n:]
slice_from(s, n) == SubSeq(s, n + 1, Len(s))

\* str.split("/"): the components between the separators.
RECURSIVE split(_)
split(s) ==
    IF \A i \in 1 .. Len(s) : s[i] # "/"
    THEN << s >>
    ELSE LET k == CHOOSE i \in 1 .. Len(s) :
                    s[i] = "/" /\ \A j \in 1 .. (i - 1) : s[j] # "/"
         IN << SubSeq(s, 1, k - 1) >> \o split(slice_from(s, k))

\* "/".join(comps)
RECURSIVE join_slash(_)
join_slash(comps) ==
    IF comps = << >> THEN << >>
    ELSE IF Len(comps) = 1 THEN comps[1]
    ELSE comps[1] \o <<"/">> \o join_slash(Tail(comps))

DotDot == <<".", ".">>

\* The loop of posixpath.normpath over the components.
RECURSIVE norm_comps(_, _, _)
norm_comps(comps, new_comps, initial_slashes) ==
    IF comps = << >> THEN new_comps
    ELSE LET comp == Head(comps)
             nc == IF comp = << >> \/ comp = <<".">> THEN new_comps
                   ELSE IF \/ comp # DotDot
                           \/ (initial_slashes = 0 /\ new_comps = << >>)
                           \/ (new_comps # << >> /\ new_comps[Len(new_comps)] = DotDot)
                        THEN Append(new_comps, comp)
                        ELSE IF new_comps # << >>
                             THEN SubSeq(new_comps, 1, Len(new_comps) - 1)
                             ELSE new_comps
         IN norm_comps(Tail(comps), nc, initial_slashes)

\* posixpath.normpath
normpath(path) ==
    IF path = << >> THEN <<".">>
    ELSE LET initial_slashes ==
                 IF ~startswith(path, <<"/">>) THEN 0
                 ELSE IF startswith(path, <<"/", "/">>) /\ ~startswith(path, <<"/", "/", "/">>)
                      THEN 2 ELSE 1
             body == join_slash(norm_comps(split(path), << >>, initial_slashes))
             res == [i \in 1 .. initial_slashes |-> "/"] \o body
         IN IF res = << >> THEN <<".">> ELSE res

\* posixpath.join(a, b) for one b
path_join(a, b) ==
    IF startswith(b, <<"/">>) THEN b
    ELSE IF a = << >> \/ a[Len(a)] = "/" THEN a \o b
    ELSE a \o <<"/">> \o b

\* os.path.abspath in working directory dir
abspath(dir, path) ==
    normpath(IF startswith(path, <<"/">>) THEN path ELSE path_join(dir, path))

\* Mutant: the slice is off by one and keeps the colon of the prefix.
normalize_path_Mut(path, ip, dir) ==
    IF startswith(path, <<"e", "c", "2", ":">>)
    THEN <<"ubuntu@", ip, ":">> \o slice_from(path, 3)
    ELSE abspath(dir, path)

\* normalize_path of scp, lines 189-192
normalize_path(path, ip, dir) ==
    IF startswith(path, <<"e", "c", "2", ":">>)
    THEN <<"ubuntu@", ip, ":">> \o slice_from(path, 4)
    ELSE abspath(dir, path)

scp_argv(from_path, to_path) ==
    << <<"scp">>, <<"-i">>, <<key_path>>, <<"-o">>,
       <<"StrictHostKeyChecking=no">>, from_path, to_path >>

InvokeScp ==
    \E f \in Paths, t \in Paths :
        /\ Invoke("scp", [NoArgs EXCEPT !.from_path = f, !.to_path = t])
        /\ pc' = "scp_load"

\* scp, lines 182-195: load, echo, rewrite both paths.
Scp_Load ==
    /\ pc = "scp_load"
    /\ IF load_raises(file)
       THEN /\ Raise
            /\ UNCHANGED << instance_ip, out, args >>
       ELSE /\ instance_ip' = load_instance_info(file)[2]
            /\ IF instance_ip' = NoIp
               THEN /\ Echo(Msg("No instance provisioned.", None, NoIp, << >>))
                    /\ Return
                    /\ UNCHANGED args
               ELSE /\ Echo(Msg("Copying", None, instance_ip',
                                << args.from_path, args.to_path >>))
                    /\ args' = [args EXCEPT
                                  !.from_path = normalize_path(@, instance_ip', cwd),
                                  !.to_path = normalize_path(@, instance_ip', cwd)]
                    /\ pc' = "scp_exec"
                    /\ UNCHANGED outcome
    /\ UNCHANGED << file, cwd, peer, instance_id, calls, cmd, prev, afterTerminate, world >>

\* scp, lines 198-208: subprocess.check_call raises on a non-zero status.
Scp_Exec ==
    /\ pc = "scp_exec"
    /\ \E status \in {0, 1} :
          /\ Call(Exited(Subprocess("scp", instance_ip,
                                    scp_argv(args.from_path, args.to_path)), status))
          /\ IF status # 0 THEN Raise ELSE Return
    /\ UNCHANGED << file, cwd, peer, instance_id, instance_ip, out, local, world >>

\* ----------------------------------------------------------------- kill
\* The process is killed from outside while a command is in progress; no
\* handler runs.
Kill ==
    /\ pc # "idle"
    /\ pc' = "idle"
    /\ outcome' = "killed"
    /\ UNCHANGED << file, cwd, peer, instance_id, instance_ip, out, calls, local, world >>

\* ----------------------------------------------------------------- Next
\* The steps of the commands: every call in them may fail.
Step ==
    \/ InvokeUp
    \/ Up_Load
    \/ run_instance
    \/ Up_WaitRunning
    \/ get_instance_ip
    \/ Up_Save
    \/ Up_Sleep
    \/ Attach_Call
    \/ Attach_Wait
    \/ Attach_Mkdir
    \/ Attach_Chown
    \/ Attach_Mount
    \/ InvokeTerminate
    \/ Term_Load
    \/ Term_Call
    \/ Term_Wait
    \/ Term_Rm
    \/ InvokeSsh
    \/ Ssh_Load
    \/ Ssh_Exec
    \/ InvokeScp
    \/ Scp_Load
    \/ Scp_Exec

Next == Step \/ Kill

\* ------------------------------------------------------ two invocations
\* The scheduler runs the other of two processes: the process that was
\* running is set aside as it is and the other one goes on from where it was.
Switch ==
    /\ peer.cmd # "none"
    /\ peer' = [cmd |-> cmd, pc |-> pc, args |-> args,
                instance_id |-> instance_id, instance_ip |-> instance_ip,
                outcome |-> outcome, out |-> out, calls |-> calls]
    /\ cmd' = peer.cmd
    /\ pc' = peer.pc
    /\ args' = peer.args
    /\ instance_id' = peer.instance_id
    /\ instance_ip' = peer.instance_ip
    /\ outcome' = peer.outcome
    /\ out' = peer.out
    /\ calls' = peer.calls
    /\ UNCHANGED << file, cwd, prev, afterTerminate, world >>

\* Two up commands have been started with no record and neither has run.
InitRace ==
    /\ file = Absent
    /\ cwd \in Dirs
    /\ cmd = "up"
    /\ pc = "up_load"
    /\ \E t \in Templates, d \in VolumeDevices :
          args = [NoArgs EXCEPT !.instance_type = t, !.volume_device = d]
    /\ instance_id = None
    /\ instance_ip = NoIp
    /\ outcome = "none"
    /\ out = << >>
    /\ calls = << >>
    /\ prev = NoPrev
    /\ afterTerminate = FALSE
    /\ nextId = 1
    /\ instState = [i \in Ids |-> "none"]
    /\ addr = [i \in Ids |-> NoIp]
    /\ vol = [state |-> "available", inst |-> None]
    /\ \E t \in Templates, d \in VolumeDevices :
          peer = [NoPeer EXCEPT !.cmd = "up", !.pc = "up_load",
                                !.args = [NoArgs EXCEPT !.instance_type = t,
                                                        !.volume_device = d]]

NextRace ==
    \/ Up_Load
    \/ run_instance
    \/ Up_WaitRunning
    \/ get_instance_ip
    \/ Up_Save
    \/ Up_Sleep
    \/ Attach_Call
    \/ Attach_Wait
    \/ Attach_Mkdir
    \/ Attach_Chown
    \/ Attach_Mount
    \/ Switch

\* Two up commands run at the same time, their steps interleaved, any call
\* failing.
SpecRace == InitRace /\ [][NextRace]_vars

\* Commands one at a time, any call failing, the process killed at any step.
Spec == Init /\ [][Next]_vars

\* Commands one at a time, any call failing, no command killed.
SpecFailures == Init /\ [][Step]_vars

TypeOK ==
    /\ file.kind \in {"absent", "corrupt", "record"}
    /\ cwd \in Dirs
    /\ cmd \in {"none", "up", "terminate", "ssh", "scp"}
    /\ outcome \in {"none", "ok", "fatal", "killed"}
    /\ instance_id \in {None} \cup Ids
    /\ instance_ip \in {NoIp} \cup Addrs
    /\ nextId \in 1 .. (MaxLaunches + 1)
    /\ \A i \in Ids : instState[i] \in
            {"none", "pending", "running", "shutting-down", "terminated"}
    /\ vol.state \in {"available", "attaching", "in-use"}

\* Instances that were launched and whose termination is not confirmed.
Live == {i \in Ids : instState[i] \in {"pending", "running", "shutting-down"}}

\* The command has ended and was not killed.
Ended(c) == cmd = c /\ pc = "idle" /\ outcome \in {"ok", "fatal"}

NotProvisioned == << Msg("No instance provisioned.", None, NoIp, << >>) >>

\* ------------------------------------------------------------------ C1
\* C1: when a record exists as up starts, up issues no Gateway call and no
\* subprocess, leaves the record as it is, and ends successfully having
\* echoed the recorded id and address (unless the process is killed first,
\* which also changes nothing).
C1_UpWithRecordIsNoOp ==
    [][ (pc = "up_load" /\ file.kind = "record") =>
            /\ file' = file
            /\ calls' = << >>
            /\ pc' = "idle"
            /\ outcome' # "killed" =>
                  /\ outcome' = "ok"
                  /\ out' = << Msg("already provisioned", file.instance_id,
                                   file.instance_ip, << >>) >> ]_vars

C1_Witness ==
    /\ cmd = "up" /\ pc = "idle" /\ outcome = "ok"
    /\ file.kind = "record"
    /\ calls = << >>
    /\ out = << Msg("already provisioned", file.instance_id, file.instance_ip, << >>) >>
    /\ args.instance_type = "nano"
    /\ args.volume_device = "/dev/xvdf"

C3_PartialRecordBeforeWait ==
    /\ (cmd = "up" /\ pc \in {"up_wait_running", "up_get_ip"}) =>
            file = save_instance_info(instance_id, NoIp)
    /\ (cmd = "up" /\ pc \in {"up_sleep", "attach_volume", "wait_volume",
                               "mkdir", "chown", "mount"}) =>
            file = save_instance_info(instance_id, instance_ip)

\* ------------------------------------------------------------------ C4
\* C4: when the launch succeeded and the wait-until-running failed, up has
\* ended fatally with a record of the launched id and no address; and an up
\* that follows reports already-provisioned and launches nothing.
C4_RecordAfterFailedWait ==
    /\ (Ended("up") /\ outcome = "fatal" /\ LastCall(calls) = "wait instance_running") =>
            file = save_instance_info(instance_id, NoIp)
    /\ (Ended("up") /\ prev.cmd = "up" /\ prev.outcome = "fatal"
            /\ prev.last = "wait instance_running") =>
            /\ Launches(calls) = 0
            /\ out # << >> /\ out[1].msg = "already provisioned"

\* ------------------------------------------------------------------ C5
\* C5: terminate changes the file only by deleting it, and only at line 158,
\* after the wait-until-terminated call for the recorded instance_id has
\* returned; a terminate that fails or is killed leaves the file as it was.
C5_DeleteOnlyAfterConfirmed ==
    [][ cmd = "terminate" =>
          /\ file' # file =>
                /\ pc = "term_rm"
                /\ file' = Absent
                /\ file.kind = "record"
                /\ instance_id = file.instance_id
                /\ calls[Len(calls)] =
                      Gateway("wait instance_terminated", file.instance_id, << >>)
                /\ instState[file.instance_id] = "terminated"
                /\ outcome' = "ok"
          /\ (pc # "idle" /\ outcome' \in {"fatal", "killed"}) => file' = file
          /\ pc \in {"term_call", "term_wait", "term_rm"} =>
                file.kind = "record" /\ file.instance_id = instance_id ]_vars

C5_Witness ==
    /\ cmd = "terminate" /\ pc = "idle" /\ outcome = "fatal"
    /\ LastCall(calls) = "wait instance_terminated"
    /\ file.kind = "record"
    /\ file.instance_id = instance_id
    /\ instState[instance_id] = "shutting-down"

\* ------------------------------------------------------------------ C6
\* C6: whenever no command is in progress, every instance that was launched
\* and is not confirmed terminated is the one the record names.
C6_LiveInstanceIsRecorded ==
    pc = "idle" =>
        \A i \in Live : file.kind = "record" /\ file.instance_id = i

\* ------------------------------------------------------------------ C7
\* C7: at most one launched instance is live: successful launches minus
\* confirmed terminations never exceeds one.
C7_AtMostOneLive == Cardinality(Live) <= 1

C9_RecordMatchesProvider ==
    (Ended("up") /\ outcome = "ok" /\ Launches(calls) = 1) =>
        /\ file.kind = "record"
        /\ file.instance_id = nextId - 1
        /\ file.instance_ip = addr[nextId - 1]
        /\ file.instance_ip \in Addrs
        /\ \E k \in 1 .. Len(calls) :
              calls[k] = Gateway("describe_instances", file.instance_id, << >>)

C9_Witness ==
    /\ Ended("up") /\ outcome = "ok" /\ Launches(calls) = 1
    /\ file.instance_id = 2
    /\ addr[1] # addr[2]
    /\ 1 \in Live

\* ----------------------------------------------------------------- C10
\* C10: terminate started with no record issues no Gateway call, leaves the
\* file absent and ends successfully reporting not-provisioned (unless the
\* process is killed first, which also changes nothing).
C10_TerminateWithoutRecord ==
    [][ (pc = "term_load" /\ file = Absent) =>
            /\ file' = Absent
            /\ calls' = << >>
            /\ pc' = "idle"
            /\ world' = world
            /\ outcome' # "killed" => outcome' = "ok" /\ out' = NotProvisioned ]_vars

C10_Witness ==
    /\ Ended("terminate") /\ outcome = "ok"
    /\ file = Absent
    /\ calls = << >>
    /\ out = NotProvisioned
    /\ ~afterTerminate

\* ----------------------------------------------------------------- C11
\* C11: when the launch call of up fails, up ends there with a fatal error:
\* the launch call is its only call, the file stays absent and the provider
\* is as it was; and an up that follows such an up issues a launch call.
C11_FailedLaunch ==
    /\ [][ (pc = "up_run" /\ calls' # calls /\ nextId' = nextId) =>
              /\ pc' = "idle"
              /\ outcome' = "fatal"
              /\ file = Absent
              /\ file' = Absent
              /\ Len(calls') = 1
              /\ LastCall(calls') = "run_instances"
              /\ world' = world ]_vars
    /\ [] ( (Ended("up") /\ prev.cmd = "up" /\ prev.outcome = "fatal"
                /\ prev.last = "run_instances") =>
              /\ prev.file = Absent
              /\ Launches(calls) = 1 )

C11_Witness ==
    /\ Ended("up") /\ outcome = "ok"
    /\ prev.cmd = "up" /\ prev.outcome = "fatal" /\ prev.last = "run_instances"
    /\ Launches(calls) = 1
    /\ file = save_instance_info(1, addr[1])

\* ----------------------------------------------------------------- C12
\* The calls of attach_volume.
AttachCalls == {"attach_volume", "wait volume_in_use", "ssh"}

\* C12: when up fails at the attach call, at the volume waiter or at a
\* remote command, the record written at line 79 stays as it was, the failing
\* call is the last call of that up, and an up that follows reports the
\* record and makes no call.
C12_FailedAttach ==
    /\ [][ (cmd = "up" /\ calls' # calls /\ LastCall(calls') \in AttachCalls
                /\ outcome' = "fatal") =>
              /\ file' = file
              /\ file = save_instance_info(instance_id, instance_ip)
              /\ pc' = "idle"
              /\ Len(calls') = Len(calls) + 1
              /\ instState' = instState ]_vars
    /\ [] ( (Ended("up") /\ outcome = "fatal" /\ LastCall(calls) \in AttachCalls) =>
              file = save_instance_info(instance_id, instance_ip) )
    /\ [] ( (cmd = "up" /\ prev.cmd = "up" /\ prev.outcome = "fatal"
                /\ prev.last \in AttachCalls) =>
              /\ prev.file.kind = "record"
              /\ file = prev.file
              /\ calls = << >>
              /\ Ended("up") =>
                    /\ outcome = "ok"
                    /\ out = << Msg("already provisioned", file.instance_id,
                                    file.instance_ip, << >>) >> )

C12_Witness ==
    /\ Ended("up") /\ outcome = "ok"
    /\ prev.cmd = "up" /\ prev.outcome = "fatal" /\ prev.last = "ssh"
    /\ calls = << >>
    /\ file.kind = "record"
    /\ vol.state = "in-use"

\* ----------------------------------------------------------------- C13
\* The remote commands among the calls, each by the word after sudo.
RECURSIVE RemoteCommands(_)
RemoteCommands(cs) ==
    IF cs = << >> THEN << >>
    ELSE IF Head(cs).kind = "subprocess"
         THEN << [word |-> Head(cs).argv[8][1], status |-> Head(cs).status] >>
                  \o RemoteCommands(Tail(cs))
         ELSE RemoteCommands(Tail(cs))

MountOrder == << "mkdir", "chown", "mount" >>

\* C13: the remote commands of up run in the order mkdir, chown, mount; one
\* that exits non-zero is the last call of up, which ends with a fatal error.
C13_RemoteCommandsInOrder ==
    cmd = "up" =>
        LET rc == RemoteCommands(calls)
        IN /\ Len(rc) <= Len(MountOrder)
           /\ \A k \in 1 .. Len(rc) :
                 /\ rc[k].word = MountOrder[k]
                 /\ rc[k].status # 0 =>
                       /\ k = Len(rc)
                       /\ calls[Len(calls)].status # 0
                       /\ pc = "idle"
                       /\ outcome = "fatal"

C13_Witness ==
    /\ Ended("up") /\ outcome = "fatal"
    /\ Len(RemoteCommands(calls)) = 2
    /\ RemoteCommands(calls)[2] = [word |-> "chown", status |-> 1]

\* ----------------------------------------------------------------- C14
\* The path begins with the four characters ec2:
IsRemote(path) ==
    /\ Len(path) >= 4
    /\ path[1] = "e" /\ path[2] = "c" /\ path[3] = "2" /\ path[4] = ":"

\* What Python's os.path.abspath gives for the local paths in directory dir.
AbsoluteOf(dir, path) ==
    IF path = <<"x">> THEN dir \o <<"/", "x">>
    ELSE IF path = <<".", ".", "/", "x">>
         THEN IF dir = <<"/", "h">> THEN <<"/", "x">> ELSE <<"/", "w", "/", "x">>
    ELSE <<"/", "y", "/", "z">>

\* What scp must make of a path argument, given the recorded address.
Rewritten(path, ip, dir) ==
    IF IsRemote(path)
    THEN <<"ubuntu@", ip, ":">> \o [k \in 1 .. (Len(path) - 4) |-> path[k + 4]]
    ELSE AbsoluteOf(dir, path)

\* C14: once scp has rewritten its paths, each path that began with ec2: is
\* ubuntu@<address of the record>:<rest>, whatever the working directory,
\* every other path is the absolute local path, and these are the paths the
\* copy is run with.
C14_ScpPaths ==
    (cmd = "scp" /\ out # << >> /\ out[1].msg = "Copying") =>
        LET from == out[1].argv[1]
            to == out[1].argv[2]
        IN /\ file.kind = "record"
           /\ args.from_path = Rewritten(from, file.instance_ip, cwd)
           /\ args.to_path = Rewritten(to, file.instance_ip, cwd)
           /\ \A p \in {from, to} :
                 /\ IsRemote(p) =>
                       \A d \in Dirs :
                          normalize_path(p, file.instance_ip, d)
                             = Rewritten(p, file.instance_ip, cwd)
                 /\ ~IsRemote(p) =>
                       normalize_path(p, file.instance_ip, cwd)[1] = "/"
           /\ calls # << >> =>
                 /\ calls[1].argv[6] = args.from_path
                 /\ calls[1].argv[7] = args.to_path

C14_Witness ==
    /\ Ended("scp") /\ outcome = "ok"
    /\ cwd = <<"/", "w", "/", "d">>
    /\ out[1].argv = << <<".", ".", "/", "x">>, <<"e", "c", "2", ":", "/", "y">> >>
    /\ calls[1].argv[6] = <<"/", "w", "/", "x">>
    /\ calls[1].argv[7] = <<"ubuntu@", file.instance_ip, ":", "/", "y">>

\* ----------------------------------------------------------------- C15
\* The positions of up after its load, in the order of the code.
UpSteps ==
    << "up_run", "up_wait_running", "up_get_ip", "up_save", "up_sleep",
       "attach_volume", "wait_volume", "mkdir", "chown", "mount" >>

\* The calls of a complete up, in the order of the code.
UpCalls ==
    << "run_instances", "wait instance_running", "describe_instances",
       "attach_volume", "wait volume_in_use", "ssh", "ssh", "ssh" >>

StepIndex(p) == CHOOSE k \in 1 .. Len(UpSteps) : UpSteps[k] = p

UpStepSet == {UpSteps[k] : k \in 1 .. Len(UpSteps)}

\* C15: up takes its steps in the order launch, wait-running, describe, save,
\* settle pause, attach, wait-attached, mkdir, chown, mount; from the return
\* of the running waiter on the launched instance is running, so the attach
\* call names an instance the waiter of this up has returned for, and the
\* remote commands are issued with the volume in use by that instance.
C15_StepOrder ==
    /\ [][ (cmd = "up" /\ pc \in UpStepSet /\ pc' \in UpStepSet /\ pc' # pc) =>
              StepIndex(pc') = StepIndex(pc) + 1 ]_vars
    /\ [] ( cmd = "up" =>
              /\ Len(calls) <= Len(UpCalls)
              /\ \A k \in 1 .. Len(calls) : calls[k].name = UpCalls[k]
              /\ Len(calls) >= 4 =>
                    /\ calls[2] = Gateway("wait instance_running", calls[4].id, << >>)
                    /\ calls[4].id = nextId - 1
                    /\ instState[calls[4].id] = "running"
              /\ pc \in {"up_get_ip", "up_save", "up_sleep", "attach_volume"} =>
                    /\ Len(calls) >= 2
                    /\ instState[instance_id] = "running"
              /\ Len(calls) >= 6 =>
                    /\ vol = [state |-> "in-use", inst |-> calls[4].id]
                    /\ calls[6].ip = addr[calls[4].id] )

C15_Witness ==
    /\ Ended("up") /\ outcome = "ok"
    /\ Len(calls) = Len(UpCalls)
    /\ vol = [state |-> "in-use", inst |-> instance_id]

\* ----------------------------------------------------------------- C16
LoadSteps == {"up_load", "term_load", "ssh_load", "scp_load"}

\* C16: with a file that does not parse, each of up, terminate, ssh and scp
\* ends at its load with a fatal error (or is killed before it), having
\* made no call and leaving the file and the provider as they were.
C16_CorruptRecord ==
    /\ [][ (file = Corrupt /\ pc \in LoadSteps) =>
              /\ pc' = "idle"
              /\ outcome' \in {"fatal", "killed"}
              /\ file' = Corrupt
              /\ calls' = << >>
              /\ out' = << >>
              /\ world' = world ]_vars
    /\ [] ( file = Corrupt =>
              /\ calls = << >>
              /\ Live = {}
              /\ pc = "idle" => outcome \in {"none", "fatal", "killed"} )

C16_Witness ==
    /\ file = Corrupt
    /\ Ended("up") /\ outcome = "fatal"
    /\ calls = << >>
    /\ nextId = 1

\* ----------------------------------------------------------------- C18
\* C18: a file that parses is absent or holds an instance id and an address,
\* so the test of up and terminate (on the id) and the test of ssh and scp
\* (on the address) agree on whether an instance is provisioned.
C18_RecordIsWhole ==
    file # Corrupt =>
        /\ file.kind = "record" =>
              /\ file.instance_id \in Ids
              /\ file.instance_ip \in Addrs
        /\ (load_instance_info(file)[1] = None) <=> (load_instance_info(file)[2] = NoIp)

C18_Witness ==
    /\ file.kind = "record"
    /\ Ended("up") /\ outcome = "fatal"
    /\ LastCall(calls) = "attach_volume"
    /\ load_instance_info(file)[1] # None
    /\ load_instance_info(file)[2] # NoIp

\* ----------------------------------------------------------------- C19
\* C19: no step of ssh or scp changes the file or the provider, every call
\* they make is a subprocess, whatever its exit status, and with the file
\* absent they make no call at all.
C19_SshScpFrame ==
    /\ [][ (cmd \in {"ssh", "scp"} /\ pc # "idle") =>
              /\ file' = file
              /\ world' = world ]_vars
    /\ [] ( cmd \in {"ssh", "scp"} =>
              /\ \A k \in 1 .. Len(calls) : calls[k].kind = "subprocess"
              /\ Len(calls) <= 1
              /\ file.kind # "record" => calls = << >>
              /\ (file = Absent /\ Ended(cmd)) =>
                    outcome = "ok" /\ out = NotProvisioned )

C19_Witness ==
    /\ Ended("ssh") /\ outcome = "ok"
    /\ Len(calls) = 1
    /\ calls[1].status = 1
    /\ file.kind = "record"

\* ----------------------------------------------------------------- C17
\* Both invocations found the file absent and had their launch call return
\* an instance.
BothLaunched ==
    /\ Launches(calls) = 1 /\ instance_id # None
    /\ Launches(peer.calls) = 1 /\ peer.instance_id # None

\* C17: nothing makes an up wait for the other: an up that loads while the
\* file is absent goes on to launch wherever the other invocation is; and
\* once both have launched, two distinct instances are live and the file, if
\* written, names one of the two.
C17_RaceOfTwoUps ==
    /\ [][ (pc = "up_load" /\ file = Absent /\ peer' = peer) =>
              /\ pc' = "up_run"
              /\ out' = << Msg("Provisioning instance...", None, NoIp, << >>) >> ]_vars
    /\ [] ( BothLaunched =>
              /\ instance_id # peer.instance_id
              /\ Live = {instance_id, peer.instance_id}
              /\ Cardinality(Live) = 2
              /\ file.kind = "record" =>
                    \/ file = save_instance_info(instance_id, instance_ip)
                    \/ file = save_instance_info(peer.instance_id, peer.instance_ip)
              /\ Cardinality({i \in Live :
                                 file.kind = "record" /\ file.instance_id = i}) <= 1 )

C17_Witness ==
    /\ BothLaunched
    /\ pc = "idle" /\ peer.pc = "idle"
    /\ out[1].msg = "Provisioning instance..."
    /\ peer.out[1].msg = "Provisioning instance..."
    /\ Cardinality(Live) = 2
    /\ file.kind = "record"
    /\ file.instance_id = 1
    /\ outcome = "ok"

====
